---- MODULE Spec2Model ----
(***************************************************************************)
(* Model of bootstrap.py (telus/forge): the self-provisioning pipeline.    *)
(* Strings are sequences of one-character strings, so that string length,  *)
(* concatenation and the slash-to-dash flattening are computed as the code *)
(* computes them.  A file's content is a sequence of lines.                *)
(***************************************************************************)
EXTENDS Integers, Sequences, FiniteSets, TLC

\* ---------------------------------------------------------------- bounds
\* Exit codes returned by the external commands range over 0..MaxExit.
MaxExit == 1
\* Number of times self_provision is run on the same host.
MaxRuns == 2

\* ------------------------------------------------------- string literals
s_tmp == <<"/", "t", "m", "p", "/">>
s_dependencies_yml == <<"d", "e", "p", "e", "n", "d", "e", "n", "c", "i", "e", "s", ".", "y", "m", "l">>
s_playbook_yml == <<"p", "l", "a", "y", "b", "o", "o", "k", ".", "y", "m", "l">>
s_pre == <<"p", "r", "e", "-">>
s_post == <<"p", "o", "s", "t", "-">>
s_vault_yml == <<"v", "a", "u", "l", "t", ".", "y", "m", "l">>
s_group_vars == <<"/", "e", "t", "c", "/", "a", "n", "s", "i", "b", "l", "e", "/", "g", "r", "o", "u", "p", "_", "v", "a", "r", "s", "/">>
s_yml == <<".", "y", "m", "l">>
s_all == <<"a", "l", "l">>
s_hosts == <<"/", "e", "t", "c", "/", "a", "n", "s", "i", "b", "l", "e", "/", "h", "o", "s", "t", "s">>
s_playbook == <<"p", "l", "a", "y", "b", "o", "o", "k">>
s_status == <<".", "s", "t", "a", "t", "u", "s">>
s_local_yml == <<"/", "e", "t", "c", "/", "a", "n", "s", "i", "b", "l", "e", "/", "g", "r", "o", "u", "p", "_", "v", "a", "r", "s", "/", "l", "o", "c", "a", "l", ".", "y", "m", "l">>
s_localhost == <<"l", "o", "c", "a", "l", "h", "o", "s", "t">>
s_ansible_hosts == <<"a", "n", "s", "i", "b", "l", "e", ".", "h", "o", "s", "t", "s">>
s_ansible_cfg == <<"a", "n", "s", "i", "b", "l", "e", ".", "c", "f", "g">>
s_vault_key == <<"v", "a", "u", "l", "t", ".", "k", "e", "y">>
s_etc_ansible_cfg == <<"/", "e", "t", "c", "/", "a", "n", "s", "i", "b", "l", "e", "/", "a", "n", "s", "i", "b", "l", "e", ".", "c", "f", "g">>
s_etc_vault_key == <<"/", "e", "t", "c", "/", "a", "n", "s", "i", "b", "l", "e", "/", "v", "a", "u", "l", "t", ".", "k", "e", "y">>
s_ssh_ed25519 == <<"s", "s", "h", ".", "e", "d", "2", "5", "5", "1", "9">>
s_ssh_rsa == <<"s", "s", "h", ".", "r", "s", "a">>
s_id_ed25519 == <<"/", "r", "o", "o", "t", "/", ".", "s", "s", "h", "/", "i", "d", "_", "e", "d", "2", "5", "5", "1", "9">>
s_id_rsa == <<"/", "r", "o", "o", "t", "/", ".", "s", "s", "h", "/", "i", "d", "_", "r", "s", "a">>
s_bin_reforge == <<"b", "i", "n", "/", "r", "e", "f", "o", "r", "g", "e">>
s_sbin_reforge == <<"/", "u", "s", "r", "/", "l", "o", "c", "a", "l", "/", "s", "b", "i", "n", "/", "r", "e", "f", "o", "r", "g", "e">>
s_project_ == <<"p", "r", "o", "j", "e", "c", "t", ":", " ">>
s_environment_tier_ == <<"e", "n", "v", "i", "r", "o", "n", "m", "e", "n", "t", "_", "t", "i", "e", "r", ":", " ">>
s_system_role_ == <<"s", "y", "s", "t", "e", "m", "_", "r", "o", "l", "e", ":", " ">>

\* ------------------------------------------------------ names used as inputs
shop == <<"s", "h", "o", "p">>
web == <<"w", "e", "b">>
prod == <<"p", "r", "o", "d">>
pre == <<"p", "r", "e">>
post == <<"p", "o", "s", "t">>
shop_web == <<"s", "h", "o", "p", "-", "w", "e", "b">>
db == <<"d", "b">>

\* The characters the regular expression class \w matches.
WordChars ==
  {"a", "b", "c", "d", "e", "f", "g", "h", "i", "j", "k", "l", "m", "n", "o",
   "p", "q", "r", "s", "t", "u", "v", "w", "x", "y", "z", "_",
   "0", "1", "2", "3", "4", "5", "6", "7", "8", "9"}

\* ------------------------------------------------------------ pure helpers
\* str(exit_status): the decimal digits of a natural number.
Digit(n) == <<"0", "1", "2", "3", "4", "5", "6", "7", "8", "9">>[n + 1]
RECURSIVE str(_)
str(n) == IF n < 10 THEN <<Digit(n)>> ELSE str(n \div 10) \o <<Digit(n % 10)>>

\* re.sub('/', '-', path)
flat_path(path) == [i \in 1..Len(path) |-> IF path[i] = "/" THEN "-" ELSE path[i]]

\* infer_tags: re.search(r'(?P<Project>[\w-]+)-(?P<Role>\w+)$', name).
\* RoleStart is the first index of the maximal trailing run of \w characters;
\* the dash before it ends the Project group, which extends left over the
\* maximal run of [\w-] characters (search returns the leftmost match).
RoleStart(name) ==
  LET bad == {i \in 1..Len(name) : name[i] \notin WordChars}
  IN  IF bad = {} THEN 1 ELSE 1 + CHOOSE i \in bad : \A j \in bad : j <= i
ProjectStart(name, dash) ==
  LET bad == {i \in 1..(dash - 1) : name[i] \notin WordChars \cup {"-"}}
  IN  IF bad = {} THEN 1 ELSE 1 + CHOOSE i \in bad : \A j \in bad : j <= i
infer_matches(name) ==
  LET r == RoleStart(name)
  IN  /\ r <= Len(name)
      /\ r >= 3
      /\ name[r - 1] = "-"
      /\ ProjectStart(name, r - 1) <= r - 2
\* The match's groupdict; meaningful only when infer_matches(name).
infer_tags(name) ==
  LET r == RoleStart(name)
  IN  [Project |-> SubSeq(name, ProjectStart(name, r - 1), r - 2),
       Role    |-> SubSeq(name, r, Len(name))]

\* sorted(list, key=len): a stable insertion sort on the length.
RECURSIVE insert_by_len(_, _)
insert_by_len(sorted, x) ==
  IF sorted = <<>> THEN <<x>>
  ELSE IF Len(sorted[Len(sorted)]) <= Len(x) THEN Append(sorted, x)
  ELSE Append(insert_by_len(SubSeq(sorted, 1, Len(sorted) - 1), x), sorted[Len(sorted)])
RECURSIVE sorted_by_len(_)
sorted_by_len(list) ==
  IF list = <<>> THEN <<>>
  ELSE insert_by_len(sorted_by_len(SubSeq(list, 1, Len(list) - 1)), list[Len(list)])

\* list(set(enumerable)): the distinct items, in an order the interpreter's
\* hashing decides; every order is a possible result.
Range(seq) == {seq[i] : i \in DOMAIN seq}
unique(enumerable) ==
  LET items == Range(enumerable)
      n == Cardinality(items)
  IN  {l \in [1..n -> items] : Range(l) = items}

\* ------------------------------------------------------------------ state
VARIABLES
  args,         \* the parsed command-line switches
  tags,         \* the instance's resource tags (a dict: trait -> value)
  groups,       \* the instance's security groups (a list of names)
  pc,           \* position of the run inside self_provision / execute
  err,          \* the exception that ended the run, "none" otherwise
  playbooks,    \* the list self_provision iterates over
  index,        \* position of the for loop in playbooks
  hook,         \* position of execute's loop in hooks
  exit_status,  \* execute's local: result of the last ansible-playbook call
  fs,           \* the local files: path -> content (a sequence of lines)
  log,          \* the external operations of the current run, in order
  first_failure,\* <<layer, hook>> of the run's first non-zero exit status
  codes,        \* the engine's exit codes per <<layer, hook>>, kept for a re-run
  run,          \* how many times self_provision was started
  reruns,       \* how many more times it will be started on this host
  snapshot      \* the local files as the previous run left them

vars == <<args, tags, groups, pc, err, playbooks, index, hook, exit_status,
          fs, log, first_failure, codes, run, reruns, snapshot>>

ExitCodes == 0..MaxExit
\* The hooks with the main playbook run before its pre-hook.
hooks_main_first == << <<>>, s_pre, s_post>>
hooks == <<s_pre, <<>>, s_post>>

\* The instances the runs are checked for: resource tags and security groups.
Instances ==
  { [tags |-> [Project |-> shop, Role |-> web, Environment |-> prod], groups |-> <<shop_web>>],
    [tags |-> [Project |-> pre, Role |-> post, Environment |-> prod], groups |-> <<shop_web>>],
    [tags |-> [Project |-> shop, Role |-> web], groups |-> <<shop_web>>],
    [tags |-> [Environment |-> prod], groups |-> <<shop_web>>],
    [tags |-> [Environment |-> prod], groups |-> <<shop_web, db>>],
    [tags |-> [Project |-> shop, Environment |-> prod], groups |-> <<shop_web>>] }
Switches ==
  [skip_preconfigure : BOOLEAN, skip_core_playbook : BOOLEAN,
   skip_base_playbook : BOOLEAN, skip_download : BOOLEAN]

\* ----------------------------------------------------------- files, events
Write(f, path, content) ==
  [p \in DOMAIN f \cup {path} |-> IF p = path THEN content ELSE f[p]]
\* What "aws s3 cp" leaves in the destination: the remote object's content.
remote(source) == << <<"@">> \o source >>
download_from_s3(f, source, destination) == Write(f, destination, remote(source))
Event(by, op, layer, file) == [by |-> by, op |-> op, layer |-> layer, file |-> file]
Downloads(by, layer, files) ==
  [i \in DOMAIN files |-> Event(by, "download", layer, files[i])]

\* ---------------------------------------------------------------- identity
resource_tags == tags
security_groups == groups
\* discover(trait) when the trait is tagged.
discover(trait) == <<resource_tags[trait]>>
\* discover(trait) when it is not: implicit_tags() raises AttributeError on a
\* group name the pattern does not match (groupdict of None), and otherwise
\* the list it returns is subscripted with the trait name.
discover_raises(trait) == trait \notin DOMAIN resource_tags
discover_exception ==
  IF \E i \in DOMAIN security_groups : ~infer_matches(security_groups[i])
  THEN "AttributeError" ELSE "TypeError"

project_path == discover("Project")[1] \o <<"/">>
\* role_paths with the project prefix forgotten.
role_paths_without_project ==
  LET roles == discover("Role")
  IN  [i \in DOMAIN roles |-> roles[i] \o <<"/">>]
role_paths ==
  LET roles == discover("Role")
  IN  [i \in DOMAIN roles |-> project_path \o roles[i] \o <<"/">>]

\* applicable_playbooks without the final sort: the set's order shows through.
applicable_playbooks_unsorted ==
  unique(Append(<< <<>> >>, project_path) \o role_paths)
\* The lists applicable_playbooks() can return.
applicable_playbooks ==
  LET base == << <<>> >>
      with_project == Append(base, project_path)
      all == with_project \o role_paths
  IN  {sorted_by_len(u) : u \in unique(all)}
applicable_playbooks_raises == discover_raises("Project") \/ discover_raises("Role")

\* ------------------------------------------------------------ per-layer ops
staging(playbook) == s_tmp \o flat_path(playbook)

vault_name(playbook) ==
  LET flat == flat_path(playbook)
      name == SubSeq(flat, 1, Len(flat) - 1)
  IN  IF Len(name) = 0 THEN s_all ELSE name
vault_file(playbook) == s_group_vars \o vault_name(playbook) \o s_yml
hosts_lines(playbook) ==
  << <<>>, <<"[">> \o vault_name(playbook) \o <<"]">>, s_localhost >>
\* get_vault: the files after the call.
get_vault(f, playbook) ==
  LET f1 == IF ~args.skip_download
            THEN download_from_s3(f, playbook \o s_vault_yml, vault_file(playbook))
            ELSE f
      old == IF s_hosts \in DOMAIN f1 THEN f1[s_hosts] ELSE <<>>
  IN  Write(f1, s_hosts, old \o hosts_lines(playbook))
get_vault_events(by, playbook) ==
  (IF ~args.skip_download
   THEN <<Event(by, "download", playbook, vault_file(playbook))>> ELSE <<>>)
  \o <<Event(by, "append", playbook, s_hosts)>>

status_file(playbook) == s_tmp \o flat_path(playbook \o s_playbook \o s_status)
\* record_exit keeping a status that was already recorded.
record_exit_keep_first(f, playbook, status) ==
  IF status_file(playbook) \in DOMAIN f THEN f
  ELSE Write(f, status_file(playbook), <<str(status)>>)
\* record_exit: the files after the call.
record_exit(f, playbook, status) == Write(f, status_file(playbook), <<str(status)>>)

\* ------------------------------------------------------------ preconfigure
configure_ansible(f) ==
  download_from_s3(
    download_from_s3(
      download_from_s3(f, s_ansible_hosts, s_hosts),
      s_ansible_cfg, s_etc_ansible_cfg),
    s_vault_key, s_etc_vault_key)
get_credentials(f) ==
  download_from_s3(download_from_s3(f, s_ssh_ed25519, s_id_ed25519), s_ssh_rsa, s_id_rsa)

\* configure_environment writes three lines, each read from resource_tags();
\* a trait that is not tagged raises KeyError and ends the writing there.
local_traits == <<"Project", "Environment", "Role">>
local_labels == <<s_project_, s_environment_tier_, s_system_role_>>
local_written ==
  LET missing == {i \in 1..3 : local_traits[i] \notin DOMAIN resource_tags}
  IN  IF missing = {} THEN 3 ELSE (CHOOSE i \in missing : \A j \in missing : i <= j) - 1
local_lines ==
  << <<>> >> \o [i \in 1..local_written |-> local_labels[i] \o resource_tags[local_traits[i]]]
configure_environment_raises == local_written < 3
configure_environment(f) == Write(get_vault(f, <<>>), s_local_yml, local_lines)

preconfigure_head_events ==
  << Event("preconfigure", "apt-get", <<>>, <<>>), Event("preconfigure", "apt-get", <<>>, <<>>),
     Event("preconfigure", "pip", <<>>, <<>>), Event("preconfigure", "pip", <<>>, <<>>),
     Event("preconfigure", "pip", <<>>, <<>>) >>
  \o Downloads("preconfigure", <<>>, <<s_hosts, s_etc_ansible_cfg, s_etc_vault_key>>)
  \o get_vault_events("preconfigure", <<>>)
  \o <<Event("preconfigure", "write", <<>>, s_local_yml)>>
preconfigure_tail_events ==
  Downloads("preconfigure", <<>>, <<s_id_ed25519, s_id_rsa, s_sbin_reforge>>)

\* ---------------------------------------------------------------- actions
Start ==
  /\ args \in Switches
  /\ \E instance \in Instances :
       /\ tags = instance.tags
       /\ groups = instance.groups
  /\ pc = "start"
  /\ err = "none"
  /\ playbooks = <<>>
  /\ index = 0
  /\ hook = 0
  /\ exit_status = 0
  /\ fs = <<>>
  /\ log = <<>>
  /\ first_failure = <<>>
  /\ codes = <<>>
  /\ run = 1
  /\ snapshot = <<>>

\* The script is run once.
Init == Start /\ reruns = 0
\* The script is run MaxRuns times on the host.
InitRerun == Start /\ reruns = MaxRuns - 1

\* self_provision, lines 272-273, with preconfigure() running to its end.
Preconfigure ==
  /\ pc = "start"
  /\ ~args.skip_preconfigure
  /\ ~configure_environment_raises
  /\ fs' = download_from_s3(get_credentials(configure_environment(configure_ansible(fs))),
                             s_bin_reforge, s_sbin_reforge)
  /\ log' = log \o preconfigure_head_events \o preconfigure_tail_events
  /\ pc' = "plan"
  /\ UNCHANGED <<args, tags, groups, err, playbooks, index, hook, exit_status,
                 first_failure, codes, run, reruns, snapshot>>

\* preconfigure() ended by the KeyError of configure_environment().
PreconfigureRaises ==
  /\ pc = "start"
  /\ ~args.skip_preconfigure
  /\ configure_environment_raises
  /\ fs' = configure_environment(configure_ansible(fs))
  /\ log' = log \o preconfigure_head_events
  /\ pc' = "error"
  /\ err' = "KeyError"
  /\ UNCHANGED <<args, tags, groups, playbooks, index, hook, exit_status,
                 first_failure, codes, run, reruns, snapshot>>

SkipPreconfigure ==
  /\ pc = "start"
  /\ args.skip_preconfigure
  /\ pc' = "plan"
  /\ UNCHANGED <<args, tags, groups, err, playbooks, index, hook, exit_status,
                 fs, log, first_failure, codes, run, reruns, snapshot>>

\* line 274: the for loop evaluates applicable_playbooks().
Plan ==
  /\ pc = "plan"
  /\ ~applicable_playbooks_raises
  /\ \E list \in applicable_playbooks : playbooks' = list
  /\ index' = 1
  /\ pc' = "loop"
  /\ UNCHANGED <<args, tags, groups, err, hook, exit_status, fs, log, first_failure,
                 codes, run, reruns, snapshot>>

PlanRaises ==
  /\ pc = "plan"
  /\ applicable_playbooks_raises
  /\ pc' = "error"
  /\ err' = discover_exception
  /\ UNCHANGED <<args, tags, groups, playbooks, index, hook, exit_status, fs,
                 log, first_failure, codes, run, reruns, snapshot>>

\* lines 275-278: the two continue statements.
skip_core(playbook) == playbook = <<>> /\ args.skip_core_playbook
\* skip_base taking every layer under the project for the project layer.
skip_base_any_project_layer(playbook) == playbook # <<>> /\ args.skip_base_playbook
skip_base(playbook) == playbook = project_path /\ args.skip_base_playbook
skipped(playbook) == skip_core(playbook) \/ skip_base(playbook)

SkipLayer ==
  /\ pc = "loop"
  /\ index <= Len(playbooks)
  /\ skipped(playbooks[index])
  /\ index' = index + 1
  /\ UNCHANGED <<args, tags, groups, pc, err, playbooks, hook, exit_status,
                 fs, log, first_failure, codes, run, reruns, snapshot>>

\* line 279: get_dependencies(playbook); the installer's exit code is dropped.
GetDependencies ==
  /\ pc = "loop"
  /\ index <= Len(playbooks)
  /\ ~skipped(playbooks[index])
  /\ LET playbook == playbooks[index]
         path == staging(playbook)
     IN  /\ fs' = IF ~args.skip_download
                  THEN download_from_s3(fs, playbook \o s_dependencies_yml,
                                        path \o s_dependencies_yml)
                  ELSE fs
         /\ log' = log
              \o (IF ~args.skip_download
                  THEN <<Event("loop", "download", playbook, path \o s_dependencies_yml)>>
                  ELSE <<>>)
              \o <<Event("loop", "ansible-galaxy", playbook, path \o s_dependencies_yml)>>
  /\ \E installer_exit \in ExitCodes : TRUE
  /\ pc' = "vault"
  /\ UNCHANGED <<args, tags, groups, err, playbooks, index, hook, exit_status,
                 first_failure, codes, run, reruns, snapshot>>

\* line 280: get_vault(playbook).
GetVault ==
  /\ pc = "vault"
  /\ fs' = get_vault(fs, playbooks[index])
  /\ log' = log \o get_vault_events("loop", playbooks[index])
  /\ hook' = 1
  /\ pc' = "download"
  /\ UNCHANGED <<args, tags, groups, err, playbooks, index, exit_status, first_failure,
                 codes, run, reruns, snapshot>>

\* ExecuteDownload without the skip_download test.
ExecuteDownload_always ==
  /\ pc = "download"
  /\ LET playbook == playbooks[index]
         filename == hooks[hook] \o s_playbook_yml
         path == staging(playbook)
     IN  /\ fs' = download_from_s3(fs, playbook \o filename, path \o filename)
         /\ log' = Append(log, Event("loop", "download", playbook, path \o filename))
  /\ pc' = "call"
  /\ UNCHANGED <<args, tags, groups, err, playbooks, index, hook, exit_status,
                 first_failure, codes, run, reruns, snapshot>>
\* execute, lines 186-188: stage the hook's playbook.
ExecuteDownload ==
  /\ pc = "download"
  /\ LET playbook == playbooks[index]
         filename == hooks[hook] \o s_playbook_yml
         path == staging(playbook)
     IN  IF ~args.skip_download
         THEN /\ fs' = download_from_s3(fs, playbook \o filename, path \o filename)
              /\ log' = Append(log, Event("loop", "download", playbook, path \o filename))
         ELSE UNCHANGED <<fs, log>>
  /\ pc' = "call"
  /\ UNCHANGED <<args, tags, groups, err, playbooks, index, hook, exit_status,
                 first_failure, codes, run, reruns, snapshot>>

\* execute, line 189: run the configuration engine on the staged file.  When
\* the script will be started again the engine's answer is kept, and in a
\* re-run the engine returns what it returned for the same stage before.
ExecuteCall ==
  /\ pc = "call"
  /\ LET playbook == playbooks[index]
         filename == hooks[hook] \o s_playbook_yml
         key == <<playbook, hook>>
     IN  /\ \E status \in ExitCodes :
              /\ run > 1 => status = codes[key]
              /\ exit_status' = status
              /\ codes' = IF run = 1 /\ reruns > 0 THEN Write(codes, key, status) ELSE codes
              /\ first_failure' = IF first_failure = <<>> /\ status # 0
                                  THEN key ELSE first_failure
         /\ log' = Append(log, Event("loop", "ansible-playbook", playbook,
                                     staging(playbook) \o filename))
  /\ pc' = "record"
  /\ UNCHANGED <<args, tags, groups, err, playbooks, index, hook, fs, run, reruns, snapshot>>

\* ExecuteRecord ending the run at the first non-zero exit status.
ExecuteRecord_fail_fast ==
  /\ pc = "record"
  /\ fs' = record_exit(fs, playbooks[index], exit_status)
  /\ log' = Append(log, Event("loop", "record", playbooks[index],
                              status_file(playbooks[index])))
  /\ IF exit_status # 0
     THEN /\ hook' = 0
          /\ pc' = "done"
          /\ index' = index
     ELSE IF hook < Len(hooks)
     THEN /\ hook' = hook + 1
          /\ pc' = "download"
          /\ index' = index
     ELSE /\ hook' = 0
          /\ pc' = "loop"
          /\ index' = index + 1
  /\ UNCHANGED <<args, tags, groups, err, playbooks, exit_status, first_failure,
                 codes, run, reruns, snapshot>>
\* execute, line 190: record_exit, then the next hook or the next playbook.
ExecuteRecord ==
  /\ pc = "record"
  /\ fs' = record_exit(fs, playbooks[index], exit_status)
  /\ log' = Append(log, Event("loop", "record", playbooks[index],
                              status_file(playbooks[index])))
  /\ IF hook < Len(hooks)
     THEN /\ hook' = hook + 1
          /\ pc' = "download"
          /\ index' = index
     ELSE /\ hook' = 0
          /\ pc' = "loop"
          /\ index' = index + 1
  /\ UNCHANGED <<args, tags, groups, err, playbooks, exit_status, first_failure,
                 codes, run, reruns, snapshot>>

\* The for loop is exhausted: self_provision returns.
Finish ==
  /\ pc = "loop"
  /\ index > Len(playbooks)
  /\ pc' = "done"
  /\ UNCHANGED <<args, tags, groups, err, playbooks, index, hook, exit_status,
                 fs, log, first_failure, codes, run, reruns, snapshot>>

\* The script is started again on the same host with the same switches.
Rerun ==
  /\ pc = "done"
  /\ reruns > 0
  /\ reruns' = reruns - 1
  /\ run' = run + 1
  /\ snapshot' = fs
  /\ pc' = "start"
  /\ playbooks' = <<>>
  /\ index' = 0
  /\ exit_status' = 0
  /\ log' = <<>>
  /\ first_failure' = <<>>
  /\ UNCHANGED <<args, tags, groups, err, hook, fs, codes>>

Next ==
  \/ Preconfigure
  \/ PreconfigureRaises
  \/ SkipPreconfigure
  \/ Plan
  \/ PlanRaises
  \/ SkipLayer
  \/ GetDependencies
  \/ GetVault
  \/ ExecuteDownload
  \/ ExecuteCall
  \/ ExecuteRecord
  \/ Finish

Spec == Init /\ [][Next]_vars

NextRerun == Next \/ Rerun
SpecRerun == InitRerun /\ [][NextRerun]_vars

\* ======================================================================
\* Properties
\* ======================================================================
PlanComputed == pc \in {"loop", "vault", "download", "call", "record", "done"}
\* The paths in the order the planner discovers them: root, project, roles.
RoleNames == IF "Role" \in DOMAIN tags THEN {tags["Role"]} ELSE {}
DiscoveredPaths ==
  << <<>>, tags["Project"] \o <<"/">>, tags["Project"] \o <<"/">> \o tags["Role"] \o <<"/">> >>
FirstAt(list, x) == CHOOSE i \in DOMAIN list : list[i] = x /\ \A j \in DOMAIN list : list[j] = x => i <= j

\* C1: with the project resolved and n distinct role names, the plan has
\* exactly n + 2 paths: "", project/ and project/role/ for each role; no path
\* occurs twice and "" is the first element.
PlanHasRootProjectAndRoles ==
  PlanComputed =>
    /\ Len(playbooks) = Cardinality(RoleNames) + 2
    /\ Range(playbooks) =
         {<<>>, tags["Project"] \o <<"/">>}
         \cup {tags["Project"] \o <<"/">> \o r \o <<"/">> : r \in RoleNames}
    /\ Cardinality(Range(playbooks)) = Len(playbooks)
    /\ playbooks[1] = <<>>
PlanHasRootProjectAndRolesWitness ==
  /\ pc = "done"
  /\ playbooks = << <<>>, shop \o <<"/">>, shop \o <<"/">> \o web \o <<"/">> >>

\* C2: the plan is the deduplicated paths in ascending length, paths of equal
\* length in discovery order, and it is the only list the planner can return
\* for the identity.
PlanOrderDetermined ==
  PlanComputed =>
    /\ Range(playbooks) = Range(DiscoveredPaths)
    /\ \A i, j \in DOMAIN playbooks :
         i < j =>
           \/ Len(playbooks[i]) < Len(playbooks[j])
           \/ /\ Len(playbooks[i]) = Len(playbooks[j])
              /\ FirstAt(DiscoveredPaths, playbooks[i]) < FirstAt(DiscoveredPaths, playbooks[j])
    /\ applicable_playbooks = {playbooks}
PlanOrderDeterminedWitness ==
  /\ pc = "loop"
  /\ index = 1
  /\ playbooks = << <<>>, pre \o <<"/">>, pre \o <<"/">> \o post \o <<"/">> >>

\* C3: with neither Project nor Role tagged and security groups ["shop-web"],
\* resolution falls back to inference, does not end in an error, and the plan
\* is ["", "shop/", "shop/web/"].
InferenceFallbackPlans ==
  ( /\ "Project" \notin DOMAIN tags
    /\ "Role" \notin DOMAIN tags
    /\ groups = <<shop_web>>
    /\ args.skip_preconfigure
    /\ pc \notin {"start", "plan"} )
  => /\ infer_tags(groups[1]) = [Project |-> shop, Role |-> web]
     /\ err = "none"
     /\ playbooks = << <<>>, shop \o <<"/">>, shop \o <<"/">> \o web \o <<"/">> >>

\* --------------------------------------------------- helpers of C4 - C10
StageNames == <<s_pre, <<>>, s_post>>
ProjectLayer == tags["Project"] \o <<"/">>
Excluded(p) ==
  \/ p = <<>> /\ args.skip_core_playbook
  \/ p = ProjectLayer /\ args.skip_base_playbook
StageFile(p, h) == s_tmp \o flat_path(p) \o StageNames[h] \o s_playbook_yml
Calls(op, p, file) ==
  {i \in DOMAIN log : /\ log[i].by = "loop"
                      /\ log[i].op = op
                      /\ log[i].layer = p
                      /\ log[i].file = file}

\* C4: no exit code aborts the pipeline: when the run ends, every planned
\* layer that is not excluded by a skip switch had its pre-hook, main and
\* post-hook stage invoked exactly once, whatever the exit codes were; a run
\* that ends in an error ended before any installer or engine was called.
NoExitCodeAborts ==
  /\ PlanComputed =>
       \A p \in Range(playbooks) : \A h \in 1..3 :
         Cardinality(Calls("ansible-playbook", p, StageFile(p, h))) <= 1
  /\ pc = "done" =>
       \A p \in Range(playbooks) : \A h \in 1..3 :
         ~Excluded(p) => Cardinality(Calls("ansible-playbook", p, StageFile(p, h))) = 1
  /\ pc = "error" =>
       \A i \in DOMAIN log : log[i].op \notin {"ansible-galaxy", "ansible-playbook"}
NoExitCodeAbortsWitness ==
  /\ pc = "done"
  /\ ~args.skip_core_playbook
  /\ ~args.skip_base_playbook
  /\ first_failure = <<ProjectLayer, 1>>
  /\ \A p \in Range(playbooks) : \A h \in 1..3 :
       Cardinality(Calls("ansible-playbook", p, StageFile(p, h))) = 1

PreconfigureDestinations ==
  {s_hosts, s_etc_ansible_cfg, s_etc_vault_key, s_id_ed25519, s_id_rsa, s_sbin_reforge}
Staged(e) ==
  /\ e.by = "loop"
  /\ e.op \in {"download", "ansible-galaxy", "ansible-playbook"}
  /\ Len(e.file) >= Len(s_tmp)
  /\ SubSeq(e.file, 1, Len(s_tmp)) = s_tmp
StagedFilesNeverCollide ==
  \A i, j \in DOMAIN log :
    (Staged(log[i]) /\ Staged(log[j]) /\ log[i].layer # log[j].layer)
      => log[i].file # log[j].file

\* C7: the skip switches exclude exactly one layer each, in the orchestrator:
\* the root (resp. project) layer stays in the plan but the loop performs no
\* dependency install, stage invocation or outcome record for it, and every
\* other planned layer is executed.
Executed(p) ==
  /\ Cardinality(Calls("ansible-galaxy", p, s_tmp \o flat_path(p) \o s_dependencies_yml)) = 1
  /\ \A h \in 1..3 : Cardinality(Calls("ansible-playbook", p, StageFile(p, h))) = 1
  /\ Cardinality({i \in DOMAIN log : log[i].by = "loop" /\ log[i].op = "record"
                                      /\ log[i].layer = p}) = 3
StatusFileOf(p) == s_tmp \o flat_path(p) \o s_playbook \o s_status
Persisted(f, p) == IF StatusFileOf(p) \in DOMAIN f THEN f[StatusFileOf(p)] ELSE <<>>
StatusIsLastRecorded ==
  [][ \A p \in Range(playbooks) \cup Range(playbooks') :
        IF pc = "record" /\ p = playbooks[index]
        THEN Persisted(fs', p) = <<str(exit_status)>>
        ELSE Persisted(fs', p) = Persisted(fs, p) ]_vars
StatusIsLastRecordedWitness ==
  /\ pc = "done"
  /\ \E p \in Range(playbooks) :
       /\ first_failure = <<p, 1>>
       /\ Persisted(fs, p) = << <<"0">> >>
       /\ \E q \in Range(playbooks) : q # p /\ Persisted(fs, q) = << <<"1">> >>

\* C9: re-running is idempotent on local state: after a second run with the
\* same identity, switches and exit codes the local files equal those after
\* the first run, and each layer's inventory group is listed at most once.
GroupLine(p) ==
  LET flat == flat_path(p)
  IN  <<"[">> \o (IF Len(flat) <= 1 THEN s_all ELSE SubSeq(flat, 1, Len(flat) - 1)) \o <<"]">>
Listings(p) == {i \in DOMAIN fs[s_hosts] : fs[s_hosts][i] = GroupLine(p)}
RerunLeavesStateEqual ==
  (run = 2 /\ pc = "done") =>
    /\ fs = snapshot
    /\ \A p \in Range(playbooks) : s_hosts \in DOMAIN fs => Cardinality(Listings(p)) <= 1

\* C10: the operations of a run are strictly ordered: layers in plan order;
\* per layer the dependency install, then the vault fetch, then the stages
\* pre-hook, main, post-hook; per stage the fetch (unless skip_download), the
\* engine's invocation, and the record of its exit code.
Fetch(p, file) == IF args.skip_download THEN <<>> ELSE <<Event("loop", "download", p, file)>>
ExpectedStage(p, h) ==
  Fetch(p, StageFile(p, h))
  \o << Event("loop", "ansible-playbook", p, StageFile(p, h)),
        Event("loop", "record", p, StatusFileOf(p)) >>
ExpectedLayer(p) ==
  IF Excluded(p) THEN <<>>
  ELSE Fetch(p, s_tmp \o flat_path(p) \o s_dependencies_yml)
       \o <<Event("loop", "ansible-galaxy", p, s_tmp \o flat_path(p) \o s_dependencies_yml)>>
       \o Fetch(p, s_group_vars \o SubSeq(GroupLine(p), 2, Len(GroupLine(p)) - 1) \o s_yml)
       \o <<Event("loop", "append", p, s_hosts)>>
       \o ExpectedStage(p, 1) \o ExpectedStage(p, 2) \o ExpectedStage(p, 3)
RECURSIVE ExpectedRun(_)
ExpectedRun(n) == IF n = 0 THEN <<>> ELSE ExpectedRun(n - 1) \o ExpectedLayer(playbooks[n])
ByLoop(e) == e.by = "loop"
LoopLog == SelectSeq(log, ByLoop)
OperationsInOrder ==
  /\ PlanComputed =>
       /\ Len(LoopLog) <= Len(ExpectedRun(Len(playbooks)))
       /\ LoopLog = SubSeq(ExpectedRun(Len(playbooks)), 1, Len(LoopLog))
  /\ pc = "done" => LoopLog = ExpectedRun(Len(playbooks))
OperationsInOrderWitness ==
  /\ pc = "done"
  /\ ~args.skip_download
  /\ ~args.skip_core_playbook
  /\ ~args.skip_base_playbook
  /\ Len(LoopLog) = 39

====
